---- MODULE Spec2Model ----
(***************************************************************************)
(* K-means with a threaded assignment phase                                *)
(* (src/prog6_kmeans/kmeansThread.cpp).                                    *)
(*                                                                         *)
(* Numbers.  Every double of the program is an integer count of 1/Scale    *)
(* units (a fixed-point grid).  Scale is a multiple of every point count   *)
(* the model reaches, so sums, differences and the means of lines 146-151  *)
(* are exact on the grid; a square is a count of 1/Scale^2 units and sqrt  *)
(* rounds down to the grid (it is exact for N = 1).  The literal 1e30 of   *)
(* lines 75 and 222 is Sentinel, which exceeds every distance and cost the *)
(* bounded inputs produce.                                                 *)
(*                                                                         *)
(* Worker count.  computeAssignments takes numThreads as a parameter       *)
(* (line 94); kMeansThread passes the local of line 227, which is 16.  The *)
(* model carries numThreads as a variable so that computeAssignments is    *)
(* explored for the counts 1..MaxThreads as well as for DefaultThreads.    *)
(***************************************************************************)
EXTENDS Integers, Sequences, FiniteSets, TLC

VARIABLES
  data,                \* double *data, M*N values, point major
  clusterCentroids,    \* double *clusterCentroids, K*N values
  clusterAssignments,  \* int *clusterAssignments, M values
  currCost,            \* double *currCost (K values, <<>> before allocation)
  prevCost,            \* double *prevCost
  M, N, K,             \* the dimensions passed to kMeansThread
  epsilon,             \* the convergence threshold
  numThreads,          \* the worker count handed to computeAssignments
  pc,                  \* position of the calling thread in kMeansThread
  iter,                \* int iter
  loopI,               \* the index i of the spawn / join loops (lines 110, 114)
  args_arr,            \* WorkerArgs args_arr[numThreads]: start and end
  workers,             \* per worker: position, loop indices i and k, minDist
  counts,              \* int *counts of computeCentroids
  writers,             \* history: who wrote each assignment index this phase
  entry,               \* history: the arrays as the caller passed them
  lastPass             \* history: the last two computeCentroids, newest first

vars == <<data, clusterCentroids, clusterAssignments, currCost, prevCost,
          M, N, K, epsilon, numThreads, pc, iter, loopI, args_arr, workers,
          counts, writers, entry, lastPass>>

----------------------------------------------------------------------------
(* Bounds of the explored inputs *)

MaxM == 4

MaxK == 2

MaxN == 1

MaxThreads == 2

MaxSpread == 2

MaxEps == 1

MaxIter == 6

(* Program constants *)

DefaultThreads == 16

Sentinel == 1000000000

----------------------------------------------------------------------------
(* Arithmetic helpers *)

Min(a, b) == IF a < b THEN a ELSE b

Max(a, b) == IF a > b THEN a ELSE b

Abs(a) == IF a < 0 THEN -a ELSE a

RECURSIVE Gcd(_, _)
Gcd(a, b) == IF b = 0 THEN a ELSE Gcd(b, a % b)

RECURSIVE LcmUpTo(_)
LcmUpTo(n) == IF n <= 1 THEN 1
              ELSE LET l == LcmUpTo(n - 1) IN (l * n) \div Gcd(l, n)

\* grid units per 1.0; even, and a multiple of every count 1..MaxM
Scale == 2 * LcmUpTo(MaxM)

RECURSIVE SqrtSearch(_, _, _)
SqrtSearch(a, lo, hi) ==
  IF lo >= hi THEN lo
  ELSE LET mid == (lo + hi + 1) \div 2
       IN IF mid * mid <= a THEN SqrtSearch(a, mid, hi)
          ELSE SqrtSearch(a, lo, mid - 1)

\* sqrt of a count of 1/Scale^2 units, as a count of 1/Scale units
Sqrt(a) == SqrtSearch(a, 0, Min(a, 46340))

RECURSIVE SumTo(_, _)
\* f[0] + ... + f[n-1]
SumTo(f, n) == IF n <= 0 THEN 0 ELSE SumTo(f, n - 1) + f[n - 1]

Slice(arr, off, n) == [j \in 0..(n - 1) |-> arr[off + j]]

----------------------------------------------------------------------------
(* Pure functions of the source *)

\* a faulty variant of stoppingConditionMet: only the last cluster decides
stoppingConditionLastOnly(prev, curr, eps, k) ==
  IF k <= 0 THEN TRUE ELSE ~(Abs(prev[k - 1] - curr[k - 1]) > eps)

stoppingConditionMet(prev, curr, eps, k) ==
  \A c \in 0..(k - 1) : ~(Abs(prev[c] - curr[c]) > eps)

dist(x, y, nDim) ==
  Sqrt(SumTo([j \in 0..(nDim - 1) |-> (x[j] - y[j]) * (x[j] - y[j])], nDim))

numPointsPerThread(m, t) == m \div t

RangeStart(w, m, t) == numPointsPerThread(m, t) * w

\* a faulty variant of RangeEnd: each range runs one index into the next
RangeEndOverlapping(w, m, t) ==
  Min(numPointsPerThread(m, t) * (w + 1) + 1, m)

RangeEnd(w, m, t) == Min(numPointsPerThread(m, t) * (w + 1), m)


\* a faulty variant of Closer: an equal distance replaces the earlier centroid
CloserOrEqual(d, best) == d <= best

\* line 86
Closer(d, best) == d < best

\* the scan of lines 82-90 for one point: the strict < keeps the first minimum
RECURSIVE ScanCentroids(_, _, _, _, _, _, _)
ScanCentroids(d, cent, m, n, k, c, best) ==
  IF c >= k THEN best[2]
  ELSE LET dd == dist(Slice(d, m * n, n), Slice(cent, c * n, n), n)
       IN IF Closer(dd, best[1])
          THEN ScanCentroids(d, cent, m, n, k, c + 1, <<dd, c>>)
          ELSE ScanCentroids(d, cent, m, n, k, c + 1, best)

\* what workerThreadStart leaves in clusterAssignments[m]
NearestCentroid(d, cent, m, n, k) ==
  ScanCentroids(d, cent, m, n, k, 0, <<Sentinel, -1>>)

InRange(asg, m, k) == asg[m] >= 0 /\ asg[m] < k

\* lines 136-143: per-cluster sums and counts of the points whose assignment
\* indexes inside the arrays
SumCentroids(d, asg, m, n, k) ==
  [j \in 0..(k * n - 1) |->
     SumTo([p \in 0..(m - 1) |->
              IF asg[p] = j \div n THEN d[p * n + (j % n)] ELSE 0], m)]

CountPoints(asg, m, k) ==
  [c \in 0..(k - 1) |-> Cardinality({p \in 0..(m - 1) : asg[p] = c})]

\* a faulty variant of MeanCentroids: the sums are left undivided
MeanCentroidsUndivided(sums, cnt, n, k) ==
  [j \in 0..(k * n - 1) |-> sums[j]]

\* lines 146-151
MeanCentroids(sums, cnt, n, k) ==
  [j \in 0..(k * n - 1) |-> sums[j] \div Max(cnt[j \div n], 1)]

\* a faulty variant of CostOf: the loop over the points starts at point 1
CostOfSkipFirst(d, cent, asg, m, n, k) ==
  [c \in 0..(k - 1) |->
     SumTo([p \in 0..(m - 1) |->
              IF asg[p] = c /\ p >= 1
              THEN dist(Slice(d, p * n, n), Slice(cent, c * n, n), n)
              ELSE 0], m)]

\* lines 163-177
CostOf(d, cent, asg, m, n, k) ==
  [c \in 0..(k - 1) |->
     SumTo([p \in 0..(m - 1) |->
              IF asg[p] = c
              THEN dist(Slice(d, p * n, n), Slice(cent, c * n, n), n)
              ELSE 0], m)]

----------------------------------------------------------------------------
(* The call: kMeansThread(data, clusterCentroids, clusterAssignments,      *)
(* M, N, K, epsilon), entered with the caller's arrays in place.           *)

Idle == [pc |-> "idle", i |-> 0, k |-> 0, minDist |-> <<>>]

EntryState(m, n, k, t, e, d, c, a) ==
  /\ data = d
  /\ clusterCentroids = c
  /\ clusterAssignments = a
  /\ currCost = <<>>
  /\ prevCost = <<>>
  /\ M = m
  /\ N = n
  /\ K = k
  /\ epsilon = e
  /\ numThreads = t
  /\ pc = "entry"
  /\ iter = 0
  /\ loopI = 0
  /\ args_arr = <<>>
  /\ workers = <<>>
  /\ counts = <<>>
  /\ writers = [p \in 0..(m - 1) |-> {}]
  /\ entry = [clusterCentroids |-> c, clusterAssignments |-> a]
  /\ lastPass = <<>>

\* input family: points in pairs {0, 1}, {s, s+1}, {2s, 2s+1}, ... laid along
\* the diagonal, centroid seeds at 0.5, h + 0.5, 2h + 0.5, ...
PointArray(m, n, s) ==
  [j \in 0..(m * n - 1) |->
     ((((j \div n) \div 2) * s) + ((j \div n) % 2) + (j % n)) * Scale]

SeedArray(k, n, h) ==
  [j \in 0..(k * n - 1) |-> ((j \div n) * h + (j % n)) * Scale + Scale \div 2]

\* the caller's assignment vector: one value in every entry, in range or not
StaleArray(m, v) == [p \in 0..(m - 1) |-> v]

WorkerCounts == (1..MaxThreads) \cup {DefaultThreads}

Epsilons == {0, MaxEps * Scale}

\* the dimensions start at 0: kMeansThread does not check them (negative
\* dimensions, where operator new[] throws, are left out)
Init ==
  \E m \in 0..MaxM, n \in 0..MaxN, k \in 0..MaxK, t \in WorkerCounts,
     e \in Epsilons, s \in 0..MaxSpread, h \in 0..MaxSpread :
    \E v \in {-1, 0, k} :
    EntryState(m, n, k, t, e, PointArray(m, n, s), SeedArray(k, n, h),
               StaleArray(m, v))

\* the reference case: points {0, 1, 10, 11}, seeds {0.5, 10.5}, K = 2, N = 1,
\* epsilon = 1e-6 (below the grid's resolution, so 0 on the grid)
RefPoints == [j \in 0..3 |-> (<<0, 1, 10, 11>>)[j + 1] * Scale]

RefSeeds == [j \in 0..1 |-> (<<0, 10>>)[j + 1] * Scale + Scale \div 2]

InitRef ==
  \E t \in {1, DefaultThreads}, v \in -1..2 :
    EntryState(4, 1, 2, t, 0, RefPoints, RefSeeds, StaleArray(4, v))

----------------------------------------------------------------------------
(* kMeansThread, lines 202-259 *)

\* a faulty variant of Enter: the previous cost is seeded with 0
EnterPrevZero ==
  /\ pc = "entry"
  /\ prevCost' = [c \in 0..(K - 1) |-> 0]
  /\ currCost' = [c \in 0..(K - 1) |-> 0]
  /\ iter' = 0
  /\ pc' = "check"
  /\ UNCHANGED <<data, clusterCentroids, clusterAssignments, M, N, K, epsilon,
                 numThreads, loopI, args_arr, workers, counts, writers, entry,
                 lastPass>>

\* lines 206-228
Enter ==
  /\ pc = "entry"
  /\ prevCost' = [c \in 0..(K - 1) |-> Sentinel]
  /\ currCost' = [c \in 0..(K - 1) |-> 0]
  /\ iter' = 0
  /\ pc' = "check"
  /\ UNCHANGED <<data, clusterCentroids, clusterAssignments, M, N, K, epsilon,
                 numThreads, loopI, args_arr, workers, counts, writers, entry,
                 lastPass>>

\* line 229 false, lines 257-258
Return ==
  /\ pc = "check"
  /\ stoppingConditionMet(prevCost, currCost, epsilon, K)
  /\ pc' = "done"
  /\ UNCHANGED <<data, clusterCentroids, clusterAssignments, currCost,
                 prevCost, M, N, K, epsilon, numThreads, iter, loopI,
                 args_arr, workers, counts, writers, entry,
                 lastPass>>

\* line 229 true, lines 231-233, then lines 95-108 of computeAssignments
Dispatch ==
  /\ pc = "check"
  /\ ~stoppingConditionMet(prevCost, currCost, epsilon, K)
  /\ iter < MaxIter
  /\ prevCost' = currCost
  /\ args_arr' = [w \in 0..(numThreads - 1) |->
                    [start |-> RangeStart(w, M, numThreads),
                     end |-> RangeEnd(w, M, numThreads)]]
  /\ workers' = [w \in 0..(numThreads - 1) |-> Idle]
  /\ writers' = [p \in 0..(M - 1) |-> {}]
  /\ loopI' = 1
  /\ pc' = "spawn"
  /\ UNCHANGED <<data, clusterCentroids, clusterAssignments, currCost,
                 M, N, K, epsilon, numThreads, iter, counts, entry,
                 lastPass>>

----------------------------------------------------------------------------
(* computeAssignments, lines 110-116, and workerThreadStart, lines 70-92 *)

NumPoints(w) == args_arr[w].end - args_arr[w].start

Finished == [pc |-> "done", i |-> 0, k |-> 0, minDist |-> <<>>]

\* entry of workerThreadStart; with an empty range neither loop runs
Started(w) ==
  IF NumPoints(w) <= 0 THEN Finished
  ELSE [pc |-> "init", i |-> 0, k |-> 0, minDist |-> <<>>]

\* lines 110-112, one iteration
Spawn ==
  /\ pc = "spawn"
  /\ loopI < numThreads
  /\ workers' = [workers EXCEPT ![loopI] = Started(loopI)]
  /\ loopI' = loopI + 1
  /\ UNCHANGED <<data, clusterCentroids, clusterAssignments, currCost,
                 prevCost, M, N, K, epsilon, numThreads, pc, iter, args_arr,
                 counts, writers, entry, lastPass>>

\* line 113: the calling thread enters workerThreadStart(&args_arr[0])
StartInline ==
  /\ pc = "spawn"
  /\ loopI >= numThreads
  /\ workers' = [workers EXCEPT ![0] = Started(0)]
  /\ pc' = "inline"
  /\ UNCHANGED <<data, clusterCentroids, clusterAssignments, currCost,
                 prevCost, M, N, K, epsilon, numThreads, iter, loopI,
                 args_arr, counts, writers, entry,
                 lastPass>>

\* a faulty variant of WorkerInit: the write lands one index further on
WorkerInitNextIndex(w) ==
  /\ workers[w].pc = "init"
  /\ LET i == workers[w].i
         m == (args_arr[w].start + i + 1) % M
         last == i + 1 >= NumPoints(w)
     IN /\ clusterAssignments' = [clusterAssignments EXCEPT ![m] = -1]
        /\ writers' = [writers EXCEPT ![m] = @ \cup {w}]
        /\ workers' =
             [workers EXCEPT ![w] =
                IF last /\ K <= 0 THEN Finished
                ELSE [pc |-> IF last THEN "assign" ELSE "init",
                      i |-> IF last THEN 0 ELSE i + 1,
                      k |-> 0,
                      minDist |-> [j \in 0..i |-> Sentinel]]]
  /\ UNCHANGED <<data, clusterCentroids, currCost, prevCost, M, N, K, epsilon,
                 numThreads, pc, iter, loopI, args_arr, counts, entry,
                 lastPass>>

\* lines 74-78, one iteration
WorkerInit(w) ==
  /\ workers[w].pc = "init"
  /\ LET i == workers[w].i
         m == args_arr[w].start + i
         last == i + 1 >= NumPoints(w)
     IN /\ clusterAssignments' = [clusterAssignments EXCEPT ![m] = -1]
        /\ writers' = [writers EXCEPT ![m] = @ \cup {w}]
        /\ workers' =
             [workers EXCEPT ![w] =
                IF last /\ K <= 0 THEN Finished
                ELSE [pc |-> IF last THEN "assign" ELSE "init",
                      i |-> IF last THEN 0 ELSE i + 1,
                      k |-> 0,
                      minDist |-> [j \in 0..i |-> Sentinel]]]
  /\ UNCHANGED <<data, clusterCentroids, currCost, prevCost, M, N, K, epsilon,
                 numThreads, pc, iter, loopI, args_arr, counts, entry,
                 lastPass>>

\* lines 82-90, one iteration of the inner loop
WorkerAssign(w) ==
  /\ workers[w].pc = "assign"
  /\ LET i == workers[w].i
         k == workers[w].k
         m == args_arr[w].start + i
         d == dist(Slice(data, m * N, N), Slice(clusterCentroids, k * N, N), N)
         closer == Closer(d, workers[w].minDist[i])
         lastK == k + 1 >= K
         last == lastK /\ i + 1 >= NumPoints(w)
     IN /\ clusterAssignments' =
             IF closer THEN [clusterAssignments EXCEPT ![m] = k]
             ELSE clusterAssignments
        /\ writers' =
             IF closer THEN [writers EXCEPT ![m] = @ \cup {w}] ELSE writers
        /\ workers' =
             [workers EXCEPT ![w] =
                IF last THEN Finished
                ELSE [pc |-> "assign",
                      i |-> IF lastK THEN i + 1 ELSE i,
                      k |-> IF lastK THEN 0 ELSE k + 1,
                      minDist |-> IF closer
                                  THEN [workers[w].minDist EXCEPT ![i] = d]
                                  ELSE workers[w].minDist]]
  /\ UNCHANGED <<data, clusterCentroids, currCost, prevCost, M, N, K, epsilon,
                 numThreads, pc, iter, loopI, args_arr, counts, entry,
                 lastPass>>

\* line 113 returns
InlineReturn ==
  /\ pc = "inline"
  /\ workers[0].pc = "done"
  /\ pc' = "join"
  /\ loopI' = 1
  /\ UNCHANGED <<data, clusterCentroids, clusterAssignments, currCost,
                 prevCost, M, N, K, epsilon, numThreads, iter, args_arr,
                 workers, counts, writers, entry,
                 lastPass>>

\* a faulty variant of Joinable: join returns while the thread still runs
JoinableAtOnce(w) == TRUE

\* std::thread::join returns once the thread has run to completion
Joinable(w) == workers[w].pc = "done"

\* a faulty variant of Join: the thread is detached, not waited for
JoinDetached ==
  /\ pc = "join"
  /\ loopI < numThreads
  /\ loopI' = loopI + 1
  /\ UNCHANGED <<data, clusterCentroids, clusterAssignments, currCost,
                 prevCost, M, N, K, epsilon, numThreads, pc, iter, args_arr,
                 workers, counts, writers, entry,
                 lastPass>>

\* lines 114-116, one iteration
Join ==
  /\ pc = "join"
  /\ loopI < numThreads
  /\ Joinable(loopI)
  /\ workers' = [workers EXCEPT ![loopI].pc = "joined"]
  /\ loopI' = loopI + 1
  /\ UNCHANGED <<data, clusterCentroids, clusterAssignments, currCost,
                 prevCost, M, N, K, epsilon, numThreads, pc, iter, args_arr,
                 counts, writers, entry, lastPass>>

\* line 117: computeAssignments returns to line 236
AssignmentsReturn ==
  /\ pc = "join"
  /\ loopI >= numThreads
  /\ pc' = "zero"
  /\ UNCHANGED <<data, clusterCentroids, clusterAssignments, currCost,
                 prevCost, M, N, K, epsilon, numThreads, iter, loopI,
                 args_arr, workers, counts, writers, entry,
                 lastPass>>

----------------------------------------------------------------------------
(* computeCentroids, lines 123-154, and computeCost, lines 159-180 *)

\* an entry of clusterAssignments that indexes outside the K-sized arrays
StrayIndex == \E p \in 0..(M - 1) : ~InRange(clusterAssignments, p, K)

\* a faulty variant of CentroidsZero: only the counts are zeroed
CentroidsZeroCountsOnly ==
  /\ pc = "zero"
  /\ counts' = [c \in 0..(K - 1) |-> 0]
  /\ pc' = "sum"
  /\ UNCHANGED <<data, clusterCentroids, clusterAssignments, currCost,
                 prevCost, M, N, K, epsilon, numThreads, iter, loopI,
                 args_arr, workers, writers, entry, lastPass>>

\* a faulty variant of CentroidsZero: the zero loop starts at cluster 1
CentroidsZeroSkipFirst ==
  /\ pc = "zero"
  /\ counts' = [c \in 0..(K - 1) |-> 0]
  /\ clusterCentroids' =
       [j \in 0..(K * N - 1) |-> IF j < N THEN clusterCentroids[j] ELSE 0]
  /\ pc' = "sum"
  /\ UNCHANGED <<data, clusterAssignments, currCost, prevCost, M, N, K,
                 epsilon, numThreads, iter, loopI, args_arr, workers, writers,
                 entry, lastPass>>

\* lines 124-132
CentroidsZero ==
  /\ pc = "zero"
  /\ counts' = [c \in 0..(K - 1) |-> 0]
  /\ clusterCentroids' = [j \in 0..(K * N - 1) |-> 0]
  /\ pc' = "sum"
  /\ UNCHANGED <<data, clusterAssignments, currCost, prevCost, M, N, K,
                 epsilon, numThreads, iter, loopI, args_arr, workers, writers,
                 entry,
                 lastPass>>

\* lines 136-143.  With a stray index the accesses of lines 139 and 142 are
\* out of bounds: this action is the outcome in which they land outside the
\* arrays of the model, Fault the outcome in which the process dies.
CentroidsSum ==
  /\ pc = "sum"
  /\ clusterCentroids' =
       [j \in 0..(K * N - 1) |->
          clusterCentroids[j]
          + SumCentroids(data, clusterAssignments, M, N, K)[j]]
  /\ counts' =
       [c \in 0..(K - 1) |-> counts[c] + CountPoints(clusterAssignments, M, K)[c]]
  /\ pc' = "mean"
  /\ UNCHANGED <<data, clusterAssignments, currCost, prevCost, M, N, K,
                 epsilon, numThreads, iter, loopI, args_arr, workers, writers,
                 entry,
                 lastPass>>

\* lines 146-153
CentroidsMean ==
  /\ pc = "mean"
  /\ clusterCentroids' = MeanCentroids(clusterCentroids, counts, N, K)
  /\ counts' = <<>>
  /\ lastPass' = <<[clusterCentroids |-> clusterCentroids',
                    clusterAssignments |-> clusterAssignments]>>
                  \o (IF lastPass = <<>> THEN <<>> ELSE <<lastPass[1]>>)
  /\ pc' = "cost"
  /\ UNCHANGED <<data, clusterAssignments, currCost, prevCost, M, N, K,
                 epsilon, numThreads, iter, loopI, args_arr, workers, writers,
                 entry>>

\* lines 159-180 and line 254.  With a stray index lines 170-171 are out of
\* bounds, as in CentroidsSum.
ComputeCost ==
  /\ pc = "cost"
  /\ currCost' = CostOf(data, clusterCentroids, clusterAssignments, M, N, K)
  /\ iter' = iter + 1
  /\ pc' = "check"
  /\ UNCHANGED <<data, clusterCentroids, clusterAssignments, prevCost, M, N,
                 K, epsilon, numThreads, loopI, args_arr, workers, counts,
                 writers, entry,
                 lastPass>>

\* an out-of-bounds access of lines 139, 142 or 170 ends the process
Fault ==
  /\ pc \in {"sum", "cost"}
  /\ StrayIndex
  /\ pc' = "fault"
  /\ UNCHANGED <<data, clusterCentroids, clusterAssignments, currCost,
                 prevCost, M, N, K, epsilon, numThreads, iter, loopI,
                 args_arr, workers, counts, writers, entry,
                 lastPass>>

----------------------------------------------------------------------------

Next ==
  \/ Enter
  \/ Return
  \/ Dispatch
  \/ Spawn
  \/ StartInline
  \/ \E w \in DOMAIN workers : WorkerInit(w)
  \/ \E w \in DOMAIN workers : WorkerAssign(w)
  \/ InlineReturn
  \/ Join
  \/ AssignmentsReturn
  \/ CentroidsZero
  \/ CentroidsSum
  \/ CentroidsMean
  \/ ComputeCost
  \/ Fault

Spec == Init /\ [][Next]_vars

SpecRef == InitRef /\ [][Next]_vars

TypeOK ==
  /\ pc \in {"entry", "check", "spawn", "inline", "join", "zero", "sum",
             "mean", "cost", "done", "fault"}
  /\ iter \in 0..MaxIter

\* no run is cut short by the iteration bound
NotCut == ~(pc = "check" /\ iter >= MaxIter
            /\ ~stoppingConditionMet(prevCost, currCost, epsilon, K))

----------------------------------------------------------------------------
(* Properties *)

ValidDims == M > 0 /\ N > 0 /\ K > 0

Owners(p) == {w \in DOMAIN args_arr :
                args_arr[w].start <= p /\ p < args_arr[w].end}

WorkerActive == \E w \in DOMAIN workers : workers[w].pc \in {"init", "assign"}

\* the caller's assignment vector already holds indices of [0, K)
CallerInRange ==
  \A p \in 0..(M - 1) : InRange(entry.clusterAssignments, p, K)

InAssignments == pc \in {"spawn", "inline", "join"}

\* the run of kMeansThread with a single worker, whose range is [0, M)
RECURSIVE SingleWorkerRun(_, _, _, _, _)
SingleWorkerRun(prev, curr, cent, asg, it) ==
  IF stoppingConditionMet(prev, curr, epsilon, K) \/ it >= MaxIter
  THEN <<asg, cent>>
  ELSE LET a2 == [p \in 0..(M - 1) |-> NearestCentroid(data, cent, p, N, K)]
           c2 == MeanCentroids(SumCentroids(data, a2, M, N, K),
                               CountPoints(a2, M, K), N, K)
       IN SingleWorkerRun(curr, CostOf(data, c2, a2, M, N, K), c2, a2, it + 1)

SingleWorkerResult ==
  SingleWorkerRun([c \in 0..(K - 1) |-> Sentinel], [c \in 0..(K - 1) |-> 0],
                  entry.clusterCentroids, entry.clusterAssignments, 0)

\* C1: once computeAssignments has set up the worker ranges, every index of
\* [0, M) lies in exactly one range [start, end).
C1_PartitionExact ==
  (args_arr # <<>> /\ ValidDims) => \A p \in 0..(M - 1) : Cardinality(Owners(p)) = 1

\* C2: in every state of an Assignment phase each index of the assignment
\* vector has been written by at most one worker, that worker's range holds
\* the index, and the ranges of distinct workers are disjoint.
C2_DisjointWriters ==
  /\ \A p \in DOMAIN writers :
       /\ Cardinality(writers[p]) <= 1
       /\ \A w \in writers[p] : args_arr[w].start <= p /\ p < args_arr[w].end
  /\ \A w1, w2 \in DOMAIN args_arr :
       w1 # w2 =>
         \A p \in 0..(M - 1) :
           ~(/\ args_arr[w1].start <= p /\ p < args_arr[w1].end
             /\ args_arr[w2].start <= p /\ p < args_arr[w2].end)

\* two workers are running at once and each has already written an index
C2_Witness ==
  /\ DOMAIN workers = 0..1
  /\ workers[0].pc \in {"init", "assign"}
  /\ workers[1].pc \in {"init", "assign"}
  /\ \E p, q \in DOMAIN writers : writers[p] = {0} /\ writers[q] = {1}

\* C3: whenever the calling thread is outside computeAssignments, every
\* worker of the last Assignment phase has run to completion over its whole
\* range, and every spawned thread has been joined.
C3_JoinBarrier ==
  ~InAssignments =>
    \A w \in DOMAIN workers :
      /\ workers[w].pc = IF w = 0 THEN "done" ELSE "joined"
      /\ \A p \in args_arr[w].start..(args_arr[w].end - 1) : w \in writers[p]

\* the Centroid Updater is about to start after a phase in which a spawned
\* thread had points to process
C3_Witness ==
  /\ pc = "zero"
  /\ \E w \in DOMAIN workers :
       w >= 1 /\ NumPoints(w) > 0 /\ workers[w].pc = "joined"

\* C4: a worker is active only while the calling thread is inside
\* computeAssignments (so never during the Centroid Updater or the Cost
\* Evaluator of any iteration), and no step changes the centroid array while
\* a worker is active.
C4_PhaseSeparation ==
  /\ [](WorkerActive => InAssignments)
  /\ [][clusterCentroids' # clusterCentroids
          => ~WorkerActive /\ ~WorkerActive']_vars

\* in a later iteration a spawned worker and the inline worker read the
\* centroids that the previous iteration's Centroid Updater wrote
C4_Witness ==
  /\ iter >= 1
  /\ DOMAIN workers = 0..1
  /\ workers[0].pc = "assign"
  /\ workers[1].pc = "assign"
  /\ clusterCentroids # entry.clusterCentroids

\* C5: when kMeansThread (worker count 16) returns on valid dimensions, every
\* entry of the assignment vector lies in [0, K).
C5_AssignmentsInRange ==
  (pc = "done" /\ ValidDims /\ numThreads = DefaultThreads) =>
    \A p \in 0..(M - 1) : InRange(clusterAssignments, p, K)

\* C6: when kMeansThread returns on valid dimensions with worker count 1 or
\* 16, the assignment vector and the centroid array are the ones the
\* single-worker run produces from the same inputs (stated for the calls whose
\* assignment vector holds indices of [0, K) on entry).
C6_Deterministic ==
  (/\ pc = "done"
   /\ ValidDims
   /\ CallerInRange
   /\ numThreads \in {1, DefaultThreads}) =>
    <<clusterAssignments, clusterCentroids>> = SingleWorkerResult

\* C7: on the reference case kMeansThread (worker count 16) returns with the
\* assignment vector {0, 0, 1, 1} and the centroids {0.5, 10.5} (stated for
\* the calls whose assignment vector holds indices of [0, K) on entry).
C7_ReferenceResult ==
  (pc = "done" /\ CallerInRange /\ numThreads = DefaultThreads) =>
    /\ clusterAssignments = [p \in 0..3 |-> p \div 2]
    /\ clusterCentroids = RefSeeds

\* C8: when kMeansThread (worker count 16) returns on valid dimensions, every
\* point's assignment is a centroid index at minimum distance to the point,
\* measured against the final centroid array (stated for the calls whose
\* assignment vector holds indices of [0, K) on entry and whose epsilon is
\* below the resolution of the grid).
C8_FixedPoint ==
  (/\ pc = "done"
   /\ ValidDims
   /\ CallerInRange
   /\ epsilon = 0
   /\ numThreads = DefaultThreads) =>
    \A p \in 0..(M - 1) :
      /\ InRange(clusterAssignments, p, K)
      /\ \A c \in 0..(K - 1) :
           dist(Slice(data, p * N, N),
                Slice(clusterCentroids, clusterAssignments[p] * N, N), N)
           <= dist(Slice(data, p * N, N), Slice(clusterCentroids, c * N, N), N)

\* C9: called with M, N or K not positive, kMeansThread runs no phase, does
\* not return normally, and leaves the centroid and assignment arrays as the
\* caller passed them.
C9_RejectsInvalid ==
  ~ValidDims =>
    /\ pc \in {"entry", "check", "fault"}
    /\ clusterCentroids = entry.clusterCentroids
    /\ clusterAssignments = entry.clusterAssignments

\* C10: when computeAssignments returns with more workers than points
\* (T > M >= 1), every range satisfies 0 <= start <= end <= M, the workers
\* with an empty range have written nothing, and every point of [0, M) has
\* been assigned by some worker.
C10_MoreWorkersThanPoints ==
  (pc = "zero" /\ ValidDims /\ numThreads > M) =>
    /\ \A w \in DOMAIN args_arr :
         /\ 0 <= args_arr[w].start
         /\ args_arr[w].start <= args_arr[w].end
         /\ args_arr[w].end <= M
         /\ NumPoints(w) = 0 => \A p \in DOMAIN writers : w \notin writers[p]
    /\ \A p \in 0..(M - 1) : writers[p] # {}

Ceil(a, b) == (a + b - 1) \div b

\* C11: once computeAssignments has set up the ranges, worker i holds
\* [i*c, min((i+1)*c, M)) with c = ceil(M / numThreads).
C11_CeilRanges ==
  (args_arr # <<>> /\ ValidDims) =>
    \A w \in DOMAIN args_arr :
      /\ args_arr[w].start = w * Ceil(M, numThreads)
      /\ args_arr[w].end = Min((w + 1) * Ceil(M, numThreads), M)

EmptyCluster(c) == \A p \in 0..(M - 1) : clusterAssignments[p] # c

\* C12: after every computeCentroids pass each cluster with no point assigned
\* to it has all N coordinates of its centroid equal to zero, and the only
\* way the run stops short is an out-of-range assignment, not an empty
\* cluster.
C12_EmptyClusterZero ==
  /\ pc = "cost" =>
       \A c \in 0..(K - 1) :
         EmptyCluster(c) =>
           \A n \in 0..(N - 1) : clusterCentroids[c * N + n] = 0
  /\ pc = "fault" => StrayIndex

\* a pass has just ended with cluster 1 empty, cluster 0 not, and the seed of
\* cluster 1 was not zero
C12_Witness ==
  /\ pc = "cost"
  /\ ValidDims
  /\ K = 2
  /\ EmptyCluster(1)
  /\ ~EmptyCluster(0)
  /\ ~StrayIndex
  /\ entry.clusterCentroids[N] # 0

\* distance of point p to centroid c in the current state
PointDist(p, c) ==
  dist(Slice(data, p * N, N), Slice(clusterCentroids, c * N, N), N)

WorkerFinished(w) == workers[w].pc \in {"done", "joined"}

CostChange(c) == Abs(prevCost[c] - currCost[c])

\* the cost of cluster c in the current state: the distances of its points
ClusterCost(c) ==
  SumTo([p \in 0..(M - 1) |->
           IF clusterAssignments[p] = c THEN PointDist(p, c) ELSE 0], M)

C15_FirstCheckFails ==
  /\ []((pc = "check" /\ iter = 0 /\ K >= 1) =>
          ~stoppingConditionMet(prevCost, currCost, epsilon, K))
  /\ [][(pc = "check" /\ iter = 0 /\ K >= 1) => pc' = "spawn"]_vars
  /\ [][iter' # iter => (pc \in {"entry", "cost"} /\ pc' = "check")]_vars
  /\ []((pc = "done" /\ K >= 1) => iter >= 1)

\* a run with at least one cluster has returned after exactly one iteration
C15_Witness == pc = "done" /\ K >= 1 /\ M >= 1 /\ iter = 1

\* the points assigned to cluster c in the current state
Members(c) == {p \in 0..(M - 1) : clusterAssignments[p] = c}

\* sum of coordinate n over the points assigned to cluster c
MemberSum(c, n) ==
  SumTo([p \in 0..(M - 1) |->
           IF p \in Members(c) THEN data[p * N + n] ELSE 0], M)

\* C16: after every computeCentroids pass the centroid array has exactly
\* K * N entries and, for each cluster with at least one point assigned and
\* each dimension, the centroid coordinate is the sum of that coordinate
\* over the cluster's points divided by their number, whatever the centroid
\* array held before the pass.
C16_CentroidIsMean ==
  pc = "cost" =>
    /\ DOMAIN clusterCentroids = 0..(K * N - 1)
    /\ \A c \in 0..(K - 1) :
         Members(c) # {} =>
           \A n \in 0..(N - 1) :
             /\ clusterCentroids[c * N + n] * Cardinality(Members(c))
                  = MemberSum(c, n)
             /\ clusterCentroids[c * N + n]
                  = MemberSum(c, n) \div Cardinality(Members(c))

\* a pass has just ended with a cluster of two or more points whose mean is
\* not zero and differs from the centroid the caller supplied
C16_Witness ==
  /\ pc = "cost"
  /\ ValidDims
  /\ \E c \in 0..(K - 1) :
       /\ Cardinality(Members(c)) >= 2
       /\ clusterCentroids[c * N] # 0
       /\ clusterCentroids[c * N] # entry.clusterCentroids[c * N]
       /\ \E p, q \in Members(c) : data[p * N] # data[q * N]

\* C17: the computeCost step leaves in currCost, for every cluster c in
\* [0, K), the sum of the distances from the points assigned to c to
\* centroid c (0 for an empty cluster); currCost has exactly K entries
\* afterwards, and the step changes neither the centroids, nor the
\* assignments, nor prevCost, nor the points.
C17_CostIsSumOfDistances ==
  [][(pc = "cost" /\ pc' = "check") =>
       /\ DOMAIN currCost' = 0..(K - 1)
       /\ \A c \in 0..(K - 1) :
            /\ currCost'[c] = ClusterCost(c)
            /\ EmptyCluster(c) => currCost'[c] = 0
       /\ clusterCentroids' = clusterCentroids
       /\ clusterAssignments' = clusterAssignments
       /\ prevCost' = prevCost
       /\ data' = data]_vars

\* a second or later computeCost has just returned, with both clusters
\* costing something and point 0 at a distance from its centroid
C17_Witness ==
  /\ pc = "check"
  /\ iter >= 2
  /\ K = 2
  /\ ~StrayIndex
  /\ currCost[0] > 0
  /\ currCost[1] > 0
  /\ M >= 1
  /\ PointDist(0, clusterAssignments[0]) > 0

\* C18: every step taken between the entry of computeAssignments and its
\* return, by whichever thread, leaves the points, the centroids, currCost,
\* prevCost and the dimensions as they were; the assignment vector keeps its
\* length and changes only at indices inside the range [start, end) of a
\* worker that took the step.
C18_AssignmentFrame ==
  [][InAssignments =>
       /\ data' = data
       /\ clusterCentroids' = clusterCentroids
       /\ currCost' = currCost
       /\ prevCost' = prevCost
       /\ <<M, N, K, epsilon>>' = <<M, N, K, epsilon>>
       /\ DOMAIN clusterAssignments' = DOMAIN clusterAssignments
       /\ \A p \in DOMAIN clusterAssignments :
            (\/ clusterAssignments'[p] # clusterAssignments[p]
             \/ writers'[p] # writers[p]) =>
              \E w \in Owners(p) : workers'[w] # workers[w]]_vars

\* all workers are joined, one index was given a new value by its owner and
\* another index, in no worker's range, still holds the caller's value
C18_Witness ==
  /\ pc = "join"
  /\ ValidDims
  /\ \A w \in DOMAIN workers : WorkerFinished(w)
  /\ loopI >= numThreads
  /\ \E p \in 0..(M - 1) :
       /\ Owners(p) # {}
       /\ writers[p] = Owners(p)
       /\ clusterAssignments[p] # entry.clusterAssignments[p]
  /\ \E q \in 0..(M - 1) :
       /\ Owners(q) = {}
       /\ writers[q] = {}
       /\ clusterAssignments[q] = entry.clusterAssignments[q]

\* C19: when two consecutive computeCentroids passes of a run saw the same
\* assignment vector, all entries in [0, K) (the Assignment Kernel run
\* between them changed nothing), the second pass produced the centroid
\* array of the first.
C19_CentroidsIdempotent ==
  (/\ Len(lastPass) = 2
   /\ lastPass[1].clusterAssignments = lastPass[2].clusterAssignments
   /\ \A p \in 0..(M - 1) : InRange(lastPass[2].clusterAssignments, p, K))
    => lastPass[1].clusterCentroids = lastPass[2].clusterCentroids

\* a second pass over unchanged in-range assignments has ended, with a
\* cluster of several distinct points whose mean is neither zero nor the
\* caller's seed
C19_Witness ==
  /\ pc = "cost"
  /\ ValidDims
  /\ Len(lastPass) = 2
  /\ lastPass[1].clusterAssignments = lastPass[2].clusterAssignments
  /\ \A p \in 0..(M - 1) : InRange(clusterAssignments, p, K)
  /\ \E c \in 0..(K - 1) :
       /\ Cardinality(Members(c)) >= 2
       /\ clusterCentroids[c * N] # 0
       /\ clusterCentroids[c * N] # entry.clusterCentroids[c * N]

\* C20: in every iteration of kMeansThread (worker count 16) on valid
\* dimensions, each entry of the assignment vector that computeCentroids and
\* computeCost are about to use as an index was written by a worker in that
\* iteration's assignment phase and lies in [0, K).
C20_IndexesWrittenThisIteration ==
  (pc \in {"sum", "cost"} /\ ValidDims /\ numThreads = DefaultThreads) =>
    \A p \in 0..(M - 1) :
      /\ writers[p] # {}
      /\ InRange(clusterAssignments, p, K)

====
